---- MODULE Spec2Model ----
(***************************************************************************)
(* Conversational control logic of BaseDiscordBot (bots/base_bot.py):      *)
(* the on_message handler, the cooldown state machine, the detached        *)
(* response tasks (respond_to_message) and the detached cooldown timer     *)
(* (reset_cooldown_after), under asyncio's cooperative scheduling: every   *)
(* action below is one run of a coroutine between two awaits.              *)
(*                                                                         *)
(* Time is kept as the minutes each sleeping timer still has to sleep.     *)
(* self.cooldown_until is written at line 152 and read nowhere, so it is   *)
(* no part of the state.                                                   *)
(***************************************************************************)
EXTENDS Integers, Sequences, FiniteSets, TLC

(* ------------------------------ bounds --------------------------------- *)
\* number of inbound message events delivered by the gateway in one run
MaxMsgs == 3
\* largest MAX_CONVERSATION_TURNS the environment is given (0 .. MaxTurnsCfg)
MaxTurnsCfg == 2
\* on_message handlers suspended in process_commands at the same time
MaxPending == 2

(* --------------------------- program constants ------------------------- *)
\* random.randint(1, 3): bounds of the cooldown, in minutes
MinCooldown == 1
MaxCooldown == 3

\* self.user, and the display name the bot answers under
SelfUser == "bot"
character_name == "bot"
\* the authors of inbound messages
Users == {SelfUser, "Alice"}
\* message.channel.id of inbound messages
Channels == {1, 2}
\* CHANNEL_ID values: 0 (no channel configured) or channel 1
ChannelIds == {0, 1}
\* command_prefix = "!"
command_prefix == <<"!">>
\* message.content: a command, a plain text with the prefix inside it
Contents == {<<"!", "h">>, <<"h", "!">>}
\* the text the LLM backend returns
ResponseText == <<"r">>
\* the value of an argument that was not passed
None == "None"

\* str.startswith
StartsWith(s, p) == Len(s) >= Len(p) /\ SubSeq(s, 1, Len(p)) = p

VARIABLES
    channel_id,              \* self.channel_id
    max_conversation_turns,  \* self.max_conversation_turns
    in_cooldown,             \* self.in_cooldown
    history,                 \* conversation_manager: the stored utterances
    conversation_turns,      \* conversation_manager: the turn counter
    pending,                 \* on_message handlers suspended in process_commands
    tasks,                   \* respond_to_message tasks: message id -> position
    timers,                  \* reset_cooldown_after tasks asleep
    observed,                \* number of message events observed so far
    origin,                  \* for each stored utterance, the message it is of
    llm_calls,               \* message id -> times the LLM backend was invoked for it
    sent,                    \* message id -> times its reply reached the channel
    accepted,                \* inbound messages appended since the start
    since_reset,             \* inbound messages appended since the last reset
    cooldowns,               \* number of entries into the cooldown so far
    dropped,                 \* handlers that returned at the cooldown gate
    ignored,                 \* handlers that returned at lines 121 or 125
    notion_character_name,   \* self.notion_character_name
    base_role,               \* self.base_role
    character,               \* self.character
    system_prompt,           \* self.system_prompt
    load_pc,                 \* position of load_character_settings
    load_trace,              \* what the persona lookup and the formatting did
    adjusted                 \* the last call of _adjust_system_prompt_for_sender

vars == <<channel_id, max_conversation_turns, in_cooldown, history,
          conversation_turns, pending, tasks, timers, observed, origin,
          llm_calls, sent, accepted, since_reset, cooldowns, dropped,
          ignored, notion_character_name, base_role, character, system_prompt,
          load_pc, load_trace, adjusted>>

\* the persona, as the conversation handlers leave it
persona == <<notion_character_name, base_role, character, system_prompt,
             load_pc, load_trace, adjusted>>

\* what the handlers, the response tasks and the timers never write
config == <<channel_id, max_conversation_turns, persona>>

\* the conversation and cooldown state, as the persona loading leaves it
control == <<channel_id, max_conversation_turns, in_cooldown, history,
             conversation_turns, pending, tasks, timers, observed, origin,
             llm_calls, sent, accepted, since_reset, cooldowns, dropped,
             ignored>>

(* ----------------------- ConversationManager --------------------------- *)
\* an utterance is a bot reply when add_message is given the bot's name and
\* the author is that name
IsBotReply(author, bot_name) == bot_name # None /\ author = bot_name

Utterance(author, content, bot_name) ==
    [author |-> author, content |-> content,
     is_bot_reply |-> IsBotReply(author, bot_name)]

\* add_message: the stored sequence after the append
AddMessageHistory(author, content, bot_name) ==
    Append(history, Utterance(author, content, bot_name))

\* add_message: the turn counter after the append
AddMessageTurns(author, bot_name) ==
    IF IsBotReply(author, bot_name) THEN conversation_turns
    ELSE conversation_turns + 1

\* should_cool_down(max_turns), asked of a turn counter
ShouldCoolDown(turns, max_turns) == turns >= max_turns

\* reset_conversation_turns: the counter after the reset
ResetTurns == 0

(* ------------------------------- persona ------------------------------- *)
\* self.character = None, self.system_prompt = None
CharacterNone == [none |-> TRUE]
PromptNone == <<"<None>">>
\* the TypeError of None += str
TypeError == <<"<TypeError>">>
\* no call of _adjust_system_prompt_for_sender yet
NoCall == [sender |-> <<>>, base |-> PromptNone, result |-> PromptNone]

\* character names given to the constructor
NotionNames == {character_name, "Mika"}
\* line 93: the text _load_base_role returns when the file cannot be read
FallbackRole == "fallback role"
\* _load_base_role: the file's text stripped (it may be empty), or the fallback
BaseRoles == {"", "role text", FallbackRole}

\* lines 187-193 and 212-218: the default character
DefaultCharacter ==
    [name |-> notion_character_name,
     personality |-> "Friendly and helpful",
     speaking_style |-> "Casual and conversational",
     language |-> "English",
     model |-> "gpt-4"]

\* what notion_service.get_character returns: None, an empty dict, or a
\* character found
EmptyDict == <<>>
FoundCharacters ==
    {[name |-> "Mika the Cat", personality |-> "Curious",
      speaking_style |-> "Polite", language |-> "Japanese",
      model |-> "claude-3"],
     [name |-> "Mika the Cat", personality |-> "Curious",
      speaking_style |-> "Polite", language |-> "Japanese",
      model |-> "gpt-4o"]}
LookupResults == {CharacterNone, EmptyDict} \cup FoundCharacters

\* dict.get(key, default)
Get(c, key, default) == IF key \in DOMAIN c THEN c[key] ELSE default

\* only None is taken for a missing character
IsNoneOnly(c) == c = CharacterNone

\* line 185: not self.character
Falsy(c) == c = CharacterNone \/ c = EmptyDict

\* a text, as the pieces it is put together from; it is empty when every
\* piece is
NonEmptyText(p) ==
    /\ p # PromptNone
    /\ p # TypeError
    /\ \E i \in 1..Len(p) : p[i] # ""

\* notion_service.format_character_prompt(character, base_role=...)
FormatCharacterPrompt(c, role) ==
    IF role # ""
    THEN <<role, "\n\n", Get(c, "name", ""), Get(c, "personality", ""),
           Get(c, "speaking_style", "")>>
    ELSE <<"You are ", notion_character_name, ".">>

\* lines 220-223: the prompt of the except branch
FallbackPrompt ==
    IF base_role # ""
    THEN <<"You are ", notion_character_name, ".\n\n", base_role>>
    ELSE <<"You are ", notion_character_name, ". Be friendly and helpful.">>

\* lines 179-183: load_character_settings up to the awaited get_character
LoadCharacterSettings ==
    /\ load_pc = "constructed"
    /\ load_pc' = "lookup"
    /\ load_trace' = [load_trace EXCEPT !.lookup = "pending"]
    /\ UNCHANGED <<control, notion_character_name, base_role, character,
                   system_prompt, adjusted>>

\* what the lookup is recorded as having returned
LookupKind(r) ==
    IF r = CharacterNone THEN "absent"
    ELSE IF r = EmptyDict THEN "empty" ELSE "found"

\* lines 183-207: get_character returns r and the prompt is formatted
GetCharacterReturned(r) ==
    /\ load_pc = "lookup"
    /\ character' = IF Falsy(r) THEN DefaultCharacter ELSE r
    /\ system_prompt' = FormatCharacterPrompt(character', base_role)
    /\ load_pc' = "loaded"
    /\ load_trace' = [lookup |-> LookupKind(r), format |-> "ok"]
    /\ UNCHANGED <<control, notion_character_name, base_role, adjusted>>

\* lines 183-199, 209-223: get_character returns r and
\* format_character_prompt raises
FormatCharacterPromptRaised(r) ==
    /\ load_pc = "lookup"
    /\ character' = DefaultCharacter
    /\ system_prompt' = FallbackPrompt
    /\ load_pc' = "loaded"
    /\ load_trace' = [lookup |-> LookupKind(r), format |-> "raised"]
    /\ UNCHANGED <<control, notion_character_name, base_role, adjusted>>

\* lines 183, 209-223: get_character raises
GetCharacterRaised ==
    /\ load_pc = "lookup"
    /\ character' = DefaultCharacter
    /\ system_prompt' = FallbackPrompt
    /\ load_pc' = "loaded"
    /\ load_trace' = [lookup |-> "raised", format |-> "none"]
    /\ UNCHANGED <<control, notion_character_name, base_role, adjusted>>

\* the conversation and cooldown state after __init__
ControlInit ==
    /\ channel_id \in ChannelIds
    /\ max_conversation_turns \in 0..MaxTurnsCfg
    /\ in_cooldown = FALSE
    /\ history = <<>>
    /\ conversation_turns = 0
    /\ pending = {}
    /\ tasks = <<>>
    /\ timers = {}
    /\ observed = 0
    /\ origin = <<>>
    /\ llm_calls = [id \in 1..MaxMsgs |-> 0]
    /\ sent = [id \in 1..MaxMsgs |-> 0]
    /\ accepted = 0
    /\ since_reset = 0
    /\ cooldowns = 0
    /\ dropped = 0
    /\ ignored = 0

\* the persona after __init__
PersonaConstructed ==
    /\ character = CharacterNone
    /\ system_prompt = PromptNone
    /\ load_pc = "constructed"
    /\ load_trace = [lookup |-> "none", format |-> "none"]
    /\ adjusted = NoCall

Init ==
    /\ ControlInit
    /\ PersonaConstructed
    /\ notion_character_name = character_name
    /\ base_role = FallbackRole

(* ------------------- _adjust_system_prompt_for_sender ------------------ *)
\* display names of senders, letter by letter
SenderNames ==
    {<<"C", "l", "a", "u", "d", "e", "-", "A", "n", "i", "m", "a", "l", "-", "4", "2">>,
     <<"A", "l", "i", "c", "e">>,
     <<"G", "P", "T", "-", "4", "o">>,
     <<"c", "l", "a", "u", "d">>,
     <<"g", "p", "t", "-", "4">>,
     <<"x", "C", "L", "A", "U", "D", "E", "x">>,
     <<>>}

\* line 285: bot_names
bot_names ==
    <<<<"g", "p", "t", "-", "4", "o", "-", "a", "n", "i", "m", "a", "l">>,
      <<"c", "l", "a", "u", "d", "e", "-", "a", "n", "i", "m", "a", "l">>,
      <<"g", "p", "t", "-", "4", "o">>,
      <<"c", "l", "a", "u", "d", "e">>>>

\* lines 288-295: bot_response_guidance
bot_response_guidance == <<"bot_response_guidance">>

\* str.lower, of one letter and of a text
LowerChar(c) ==
    CASE c = "A" -> "a"
      [] c = "C" -> "c"
      [] c = "D" -> "d"
      [] c = "E" -> "e"
      [] c = "G" -> "g"
      [] c = "L" -> "l"
      [] c = "P" -> "p"
      [] c = "T" -> "t"
      [] c = "U" -> "u"
      [] OTHER -> c
Lower(t) == [i \in 1..Len(t) |-> LowerChar(t[i])]

\* sub in t, of Python strings
Contains(t, sub) ==
    \E i \in 1..(Len(t) - Len(sub) + 1) : SubSeq(t, i, i + Len(sub) - 1) = sub

\* the sender is compared as written, without lower()
IsPeerBotCaseSensitive(sender_name) ==
    \E k \in 1..Len(bot_names) : Contains(sender_name, Lower(bot_names[k]))

\* line 286: any(bot_name.lower() in sender_name.lower() for bot_name in
\* bot_names)
IsPeerBot(sender_name) ==
    \E k \in 1..Len(bot_names) :
        Contains(Lower(sender_name), Lower(bot_names[k]))

\* lines 282-298: what the call returns, or the TypeError of None += str
AdjustSystemPromptForSender(sender_name) ==
    IF IsPeerBot(sender_name)
    THEN IF system_prompt = PromptNone THEN TypeError
         ELSE system_prompt \o bot_response_guidance
    ELSE system_prompt

\* lines 240, 271-298: a response task calls the method for a sender
AdjustPrompt(sender_name) ==
    /\ adjusted' = [sender |-> sender_name,
                    base |-> system_prompt,
                    result |-> AdjustSystemPromptForSender(sender_name)]
    /\ UNCHANGED <<control, notion_character_name, base_role, character,
                   system_prompt, load_pc, load_trace>>

(* ------------------------ persona specification ------------------------ *)
\* the bot as constructed, for every character name and base role
PersonaInit ==
    /\ ControlInit
    /\ PersonaConstructed
    /\ notion_character_name \in NotionNames
    /\ base_role \in BaseRoles

PersonaNext ==
    \/ LoadCharacterSettings
    \/ \E r \in LookupResults : GetCharacterReturned(r)
    \/ \E r \in LookupResults : FormatCharacterPromptRaised(r)
    \/ GetCharacterRaised
    \/ \E sender_name \in SenderNames : AdjustPrompt(sender_name)

PersonaSpec == PersonaInit /\ [][PersonaNext]_vars

(* ----------------------------- on_message ------------------------------ *)
\* an inbound message; eligible is what should_respond_to_message returns
\* for it
Messages == [author : Users, channel : Channels, content : Contents,
             eligible : BOOLEAN]

\* the bot's own messages are handled like anyone's
FromNobody(msg) == FALSE

\* line 120: message.author == self.user
FromSelf(msg) == msg.author = SelfUser

\* line 124: self.channel_id and message.channel.id != self.channel_id
OtherChannel(msg) == channel_id # 0 /\ msg.channel # channel_id

\* line 131: message.content.startswith(self.command_prefix)
IsCommand(content) == StartsWith(content, command_prefix)

\* the cooldown is not looked at
CooldownGateOpen == FALSE

\* line 135: if self.in_cooldown: return
CooldownGate == in_cooldown

\* the threshold compared one turn late
CoolsDownOneLate(m) ==
    ShouldCoolDown(AddMessageTurns(m.author, None) - 1, max_conversation_turns)

\* the threshold compared one turn early
CoolsDownOneEarly(m) ==
    ShouldCoolDown(AddMessageTurns(m.author, None) + 1, max_conversation_turns)

\* line 145: should_cool_down(self.max_conversation_turns), asked right after
\* the message of handler m was added
CoolsDown(m) ==
    ShouldCoolDown(AddMessageTurns(m.author, None), max_conversation_turns)

\* random.randint(0, 3): a cooldown of no length becomes possible
CooldownMinutesFromZero == 0..MaxCooldown

\* line 151: random.randint(1, 3)
CooldownMinutes == MinCooldown..MaxCooldown

\* line 155: the timer reset_cooldown_after(minutes) leaves asleep
NewTimers(id, minutes) ==
    {[id |-> id, remaining |-> minutes]}

\* the response task is created without asking the hook
StartsTaskUnasked(m) == TRUE

\* lines 159-161: the hook decides whether a response task is created
StartsTask(m) == m.eligible

\* the handler of message id, suspended at process_commands
Handler(id, msg) ==
    [id |-> id, author |-> msg.author, channel |-> msg.channel,
     content |-> msg.content, eligible |-> msg.eligible]

\* lines 118-128: the handler up to the awaited process_commands
OnMessage(msg) ==
    /\ observed < MaxMsgs
    /\ Cardinality(pending) < MaxPending
    /\ observed' = observed + 1
    /\ IF FromSelf(msg) \/ OtherChannel(msg)
       THEN /\ pending' = pending
            /\ ignored' = ignored + 1
       ELSE /\ pending' = pending \cup {Handler(observed + 1, msg)}
            /\ ignored' = ignored
    /\ UNCHANGED <<config, in_cooldown, history, conversation_turns, tasks,
                   timers, origin, llm_calls, sent, accepted, since_reset,
                   cooldowns, dropped>>

\* the handler falls through to line 161 after starting the cooldown
TasksAfterFallThrough(m) ==
    IF StartsTask(m) THEN tasks @@ (m.id :> "delay") ELSE tasks

\* line 156: the handler that starts the cooldown returns before the
\* create_task at line 161, so the response tasks are the ones there were
TasksAfterCooldownEntry(m) == tasks

\* the reset empties the store
ResetTurnsClearsHistory(h) == << >>

\* conversation_manager.reset_turns() at line 148, as it acts on the stored
\* sequence: it leaves it as it is
ResetTurnsHistory(h) == h

\* the stored sequence at the end of the handler of an accepted message m
StoredAfter(m) ==
    LET added == AddMessageHistory(m.author, m.content, None)
    IN  IF CoolsDown(m) THEN ResetTurnsHistory(added) ELSE added

\* the message is stored only if the eligibility hook accepts it
AddInboundIfEligible(m) ==
    IF m.eligible
    THEN /\ history' = StoredAfter(m)
         /\ origin' = Append(origin, [kind |-> "inbound", id |-> m.id])
         /\ accepted' = accepted + 1
    ELSE UNCHANGED <<history, origin, accepted>>

\* lines 138-142: add_message(author, content), before and whatever the
\* eligibility hook at line 159
AddInbound(m) ==
    /\ history' = StoredAfter(m)
    /\ origin' = Append(origin, [kind |-> "inbound", id |-> m.id])
    /\ accepted' = accepted + 1

\* a response task is at one of its awaits
InFlight(id) ==
    id \in DOMAIN tasks /\ tasks[id] \in {"delay", "typing", "llm", "sending"}

\* the handler goes on only once no reply is being produced
CanResumeWhenIdle(m) ==
    m \in pending /\ \A id \in DOMAIN tasks : ~InFlight(id)

\* lines 128-131, 161: the handler goes on as soon as process_commands has
\* returned; the replies are tasks of their own (create_task), which it
\* does not wait for
CanResume(m) == m \in pending

\* lines 131-161: the handler from the return of process_commands to its
\* end; minutes is what random.randint returns
OnMessageResume(m, minutes) ==
    /\ CanResume(m)
    /\ pending' = pending \ {m}
    /\ IF IsCommand(m.content)
       THEN UNCHANGED <<in_cooldown, history, conversation_turns, tasks,
                        timers, origin, accepted, since_reset, cooldowns,
                        dropped>>
       ELSE IF CooldownGate
       THEN /\ dropped' = dropped + 1
            /\ UNCHANGED <<in_cooldown, history, conversation_turns, tasks,
                           timers, origin, accepted, since_reset, cooldowns>>
       ELSE /\ AddInbound(m)
            /\ dropped' = dropped
            /\ IF CoolsDown(m)
               THEN /\ in_cooldown' = TRUE
                    /\ conversation_turns' = ResetTurns
                    /\ since_reset' = 0
                    /\ cooldowns' = cooldowns + 1
                    /\ timers' = timers \cup NewTimers(m.id, minutes)
                    /\ tasks' = TasksAfterCooldownEntry(m)
               ELSE /\ conversation_turns' = AddMessageTurns(m.author, None)
                    /\ since_reset' = since_reset + 1
                    /\ tasks' = IF StartsTask(m)
                                THEN tasks @@ (m.id :> "delay") ELSE tasks
                    /\ UNCHANGED <<in_cooldown, timers, cooldowns>>
    /\ UNCHANGED <<config, ignored, observed, llm_calls, sent>>

(* ------------------------- reset_cooldown_after ------------------------ *)
\* the timer wakes and ends without clearing the flag
ResetCooldownAfterKeepsFlag(t) ==
    /\ t \in timers
    /\ t.remaining = 0
    /\ timers' = timers \ {t}
    /\ UNCHANGED <<config, ignored, in_cooldown, history, conversation_turns, pending,
                   tasks, observed, origin, llm_calls, sent, accepted,
                   since_reset, cooldowns, dropped>>

\* lines 308-310: the sleep is over, the cooldown flag is cleared
ResetCooldownAfter(t) ==
    /\ t \in timers
    /\ t.remaining = 0
    /\ timers' = timers \ {t}
    /\ in_cooldown' = FALSE
    /\ UNCHANGED <<config, ignored, history, conversation_turns, pending, tasks,
                   observed, origin, llm_calls, sent, accepted, since_reset,
                   cooldowns, dropped>>

\* line 308: a minute of asyncio.sleep passes for every sleeping timer; a
\* timer whose sleep is over wakes before the clock moves on
Tick ==
    /\ timers # {}
    /\ \A t \in timers : t.remaining > 0
    /\ timers' = {[t EXCEPT !.remaining = @ - 1] : t \in timers}
    /\ UNCHANGED <<config, ignored, in_cooldown, history, conversation_turns, pending,
                   tasks, observed, origin, llm_calls, sent, accepted,
                   since_reset, cooldowns, dropped>>

(* -------------------------- respond_to_message ------------------------- *)
\* the task of message id is suspended at position pc
At(id, pc) == id \in DOMAIN tasks /\ tasks[id] = pc

\* lines 260-262: the name the reply is stored under, and the bot_name passed
ReplyAuthor == character_name
\* the bot_name argument left out of the call
ReplyBotNameOmitted == None
ReplyBotName == character_name

\* lines 234-250: the response delay is over; model and prompt are chosen, the
\* history is formatted and the typing simulation begins
DelayDone(id) ==
    /\ At(id, "delay")
    /\ tasks' = [tasks EXCEPT ![id] = "typing"]
    /\ UNCHANGED <<config, ignored, in_cooldown, history, conversation_turns, pending,
                   timers, observed, origin, llm_calls, sent, accepted,
                   since_reset, cooldowns, dropped>>

\* lines 250-256: the typing simulation is over and the LLM backend is invoked
TypingDone(id) ==
    /\ At(id, "typing")
    /\ tasks' = [tasks EXCEPT ![id] = "llm"]
    /\ llm_calls' = [llm_calls EXCEPT ![id] = @ + 1]
    /\ UNCHANGED <<config, ignored, in_cooldown, history, conversation_turns, pending,
                   timers, observed, origin, sent, accepted, since_reset,
                   cooldowns, dropped>>

\* lines 250, 268-269: the typing simulation raises; the exception is logged
TypingFailed(id) ==
    /\ At(id, "typing")
    /\ tasks' = [tasks EXCEPT ![id] = "typing_failed"]
    /\ UNCHANGED <<config, ignored, in_cooldown, history, conversation_turns, pending,
                   timers, observed, origin, llm_calls, sent, accepted,
                   since_reset, cooldowns, dropped>>

\* the reply is sent first and never stored
LLMReturnedSendsUnstored(id) ==
    /\ At(id, "llm")
    /\ tasks' = [tasks EXCEPT ![id] = "sent"]
    /\ sent' = [sent EXCEPT ![id] = @ + 1]
    /\ UNCHANGED <<config, ignored, in_cooldown, history, conversation_turns, pending,
                   timers, observed, origin, llm_calls, accepted, since_reset,
                   cooldowns, dropped>>

\* lines 253-266: the backend returns; the reply is stored and the send begins
LLMReturned(id) ==
    /\ At(id, "llm")
    /\ history' = AddMessageHistory(ReplyAuthor, ResponseText, ReplyBotName)
    /\ conversation_turns' = AddMessageTurns(ReplyAuthor, ReplyBotName)
    /\ origin' = Append(origin, [kind |-> "reply", id |-> id])
    /\ tasks' = [tasks EXCEPT ![id] = "sending"]
    /\ UNCHANGED <<config, ignored, in_cooldown, pending, timers, observed, llm_calls,
                   sent, accepted, since_reset, cooldowns, dropped>>

\* the failure is answered with a stored apology
LLMFailedStoresReply(id) ==
    /\ At(id, "llm")
    /\ history' = AddMessageHistory(ReplyAuthor, ResponseText, ReplyBotName)
    /\ origin' = Append(origin, [kind |-> "reply", id |-> id])
    /\ tasks' = [tasks EXCEPT ![id] = "llm_failed"]
    /\ UNCHANGED <<config, ignored, in_cooldown, conversation_turns, pending, timers,
                   observed, llm_calls, sent, accepted, since_reset,
                   cooldowns, dropped>>

\* lines 253, 268-269: the backend raises; the exception is logged and the
\* task ends
LLMFailed(id) ==
    /\ At(id, "llm")
    /\ tasks' = [tasks EXCEPT ![id] = "llm_failed"]
    /\ UNCHANGED <<config, ignored, in_cooldown, history, conversation_turns, pending,
                   timers, observed, origin, llm_calls, sent, accepted,
                   since_reset, cooldowns, dropped>>

\* line 266: the channel has taken the reply
SendDone(id) ==
    /\ At(id, "sending")
    /\ tasks' = [tasks EXCEPT ![id] = "sent"]
    /\ sent' = [sent EXCEPT ![id] = @ + 1]
    /\ UNCHANGED <<config, ignored, in_cooldown, history, conversation_turns, pending,
                   timers, observed, origin, llm_calls, accepted, since_reset,
                   cooldowns, dropped>>

\* lines 266, 268-269: the send raises; the exception is logged
SendFailed(id) ==
    /\ At(id, "sending")
    /\ tasks' = [tasks EXCEPT ![id] = "send_failed"]
    /\ UNCHANGED <<config, ignored, in_cooldown, history, conversation_turns, pending,
                   timers, observed, origin, llm_calls, sent, accepted,
                   since_reset, cooldowns, dropped>>

(* ---------------------------- specification ---------------------------- *)
Next ==
    \/ \E msg \in Messages : OnMessage(msg)
    \/ \E m \in pending, minutes \in CooldownMinutes :
          OnMessageResume(m, minutes)
    \/ \E t \in timers : ResetCooldownAfter(t)
    \/ Tick
    \/ \E id \in DOMAIN tasks : DelayDone(id)
    \/ \E id \in DOMAIN tasks : TypingDone(id)
    \/ \E id \in DOMAIN tasks : TypingFailed(id)
    \/ \E id \in DOMAIN tasks : LLMReturned(id)
    \/ \E id \in DOMAIN tasks : LLMFailed(id)
    \/ \E id \in DOMAIN tasks : SendDone(id)
    \/ \E id \in DOMAIN tasks : SendFailed(id)

Spec == Init /\ [][Next]_vars

\* the event loop runs every ready coroutine and the clock advances, so a
\* sleeping timer is woken once its time has come
FairSpec ==
    /\ Spec
    /\ WF_vars(Tick)
    /\ WF_vars(\E t \in timers : ResetCooldownAfter(t))

TypeOK ==
    /\ channel_id \in ChannelIds
    /\ max_conversation_turns \in 0..MaxTurnsCfg
    /\ in_cooldown \in BOOLEAN
    /\ conversation_turns \in Nat
    /\ observed \in 0..MaxMsgs
    /\ ignored \in 0..observed
    /\ Len(history) = Len(origin)

(* ------------------------------- claims -------------------------------- *)
\* the step appends one utterance of the given kind for message id
Appends(kind, id) ==
    /\ Len(origin') = Len(origin) + 1
    /\ origin'[Len(origin')] = [kind |-> kind, id |-> id]

\* the step appends the reply of some response task
AppendsReply == \E id \in DOMAIN tasks : Appends("reply", id)

\* the step is the end of the handler of m
Finishes(m) == m \in pending /\ m \notin pending'

\* the utterance of the given kind for message id is in the store
Stored(kind, id) ==
    \E i \in 1..Len(origin) : origin[i] = [kind |-> kind, id |-> id]

\* C1: while the controller is cooling down no step invokes the LLM backend,
\* appends a bot reply or sends to the channel, response tasks started
\* before the cooldown included.
C1_NoReplyWhileCoolingDown ==
    [][in_cooldown =>
          /\ llm_calls' = llm_calls
          /\ sent' = sent
          /\ ~AppendsReply]_vars

\* C2: while the controller is cooling down, the handler of an inbound
\* message (not from self, in the configured channel; here also not a
\* command) appends that message to the store.
C2_StoredWhileCoolingDown ==
    [][\A m \in pending :
          Finishes(m) /\ in_cooldown /\ ~StartsWith(m.content, command_prefix)
              => /\ Len(history') = Len(history) + 1
                 /\ Appends("inbound", m.id)]_vars

\* C3: as long as fewer than max_turns inbound messages were appended since
\* the start, the controller is ACTIVE and the turn counter is their number.
C3_ActiveBelowMaxTurns ==
    accepted < max_conversation_turns =>
        ~in_cooldown /\ conversation_turns = accepted

\* C3 witness: a message was appended below the threshold, and a reply too
C3_Witness ==
    /\ accepted >= 1
    /\ accepted < max_conversation_turns
    /\ \E id \in DOMAIN tasks : Stored("reply", id)

\* C4: the handler step whose append brings the turn counter to exactly
\* max_turns enters the cooldown from ACTIVE, once, resets the counter to 0
\* and schedules exactly one timer, of 1 to 3 minutes.
C4_CooldownEntry ==
    [][\A m \in pending :
          Appends("inbound", m.id)
          /\ conversation_turns + 1 = max_conversation_turns
              => /\ ~in_cooldown /\ in_cooldown'
                 /\ cooldowns' = cooldowns + 1
                 /\ conversation_turns' = 0
                 /\ timers \subseteq timers'
                 /\ Cardinality(timers' \ timers) = 1
                 /\ \A t \in timers' \ timers :
                       t.remaining \in MinCooldown..MaxCooldown]_vars

\* C4 witness: the second of two turns has just entered the cooldown
C4_Witness ==
    /\ max_conversation_turns = 2
    /\ accepted = 2
    /\ in_cooldown
    /\ cooldowns = 1
    /\ conversation_turns = 0
    /\ Cardinality(timers) = 1

\* C5: under the scheduler's fairness every cooldown ends; it ends only by
\* its timer waking with its sleep over; and a message arriving or handled
\* during the cooldown leaves the timers and the cooldown state as they are.
C5_CooldownEndsWhenTimerElapses ==
    /\ in_cooldown ~> ~in_cooldown
    /\ [][in_cooldown /\ ~in_cooldown' =>
             \E t \in timers : t.remaining = 0 /\ timers' = timers \ {t}]_vars
    /\ [][in_cooldown /\ (observed' # observed \/ \E m \in pending : Finishes(m))
             => timers' = timers /\ in_cooldown']_vars

\* C5 witness: a cooldown has ended after a message was handled during it
C5_Witness ==
    /\ cooldowns = 1
    /\ dropped >= 1
    /\ ~in_cooldown
    /\ timers = {}

\* C6: a response task whose LLM call failed stored no reply, sent nothing,
\* called the backend once and stays ended; the failing step leaves the
\* store, the channel, the cooldown state and the turn counter unchanged.
C6_FailedGenerationLeavesNoTrace ==
    /\ [](\A id \in DOMAIN tasks :
             tasks[id] = "llm_failed" =>
                 ~Stored("reply", id) /\ sent[id] = 0 /\ llm_calls[id] = 1)
    /\ [][\A id \in DOMAIN tasks :
             /\ tasks[id] = "llm" /\ tasks'[id] = "llm_failed" =>
                   /\ history' = history
                   /\ sent' = sent
                   /\ llm_calls' = llm_calls
                   /\ in_cooldown' = in_cooldown
                   /\ timers' = timers
                   /\ conversation_turns' = conversation_turns
             /\ tasks[id] = "llm_failed" => tasks'[id] = "llm_failed"]_vars

\* C6 witness: a generation has failed with utterances in the store
C6_Witness ==
    \E id \in DOMAIN tasks : tasks[id] = "llm_failed" /\ Len(history) >= 1

\* C7: every stored reply comes after the stored message that triggered it,
\* and a reply whose send has begun or ended is already in the store.
C7_ReplyStoredBeforeSent ==
    /\ \A j \in 1..Len(origin) :
          origin[j].kind = "reply" =>
              /\ history[j].is_bot_reply
              /\ \E i \in 1..(j - 1) :
                    /\ origin[i] = [kind |-> "inbound", id |-> origin[j].id]
                    /\ ~history[i].is_bot_reply
    /\ \A id \in 1..MaxMsgs : sent[id] > 0 => Stored("reply", id)
    /\ \A id \in DOMAIN tasks :
          tasks[id] \in {"sending", "sent", "send_failed"} => Stored("reply", id)

\* C7 witness: a reply has reached the channel
C7_Witness == \E id \in 1..MaxMsgs : sent[id] = 1

\* C8: a handler creates a response task for its message exactly when the
\* message is not from the bot, is in the configured channel, does not
\* start with the command prefix, the controller is ACTIVE when the handler
\* checks it and still ACTIVE after the append, and the hook returns true;
\* no other step creates a response task.
C8_TaskStartedIff ==
    /\ [](\A m \in pending : ~FromSelf(m) /\ ~OtherChannel(m))
    /\ [][\A m \in pending :
             Finishes(m) =>
                 ((m.id \notin DOMAIN tasks /\ m.id \in DOMAIN tasks')
                  <=> /\ m.author # SelfUser
                      /\ (channel_id = 0 \/ m.channel = channel_id)
                      /\ ~StartsWith(m.content, command_prefix)
                      /\ ~in_cooldown
                      /\ ~in_cooldown'
                      /\ m.eligible)]_vars
    /\ [][DOMAIN tasks' # DOMAIN tasks =>
             \E m \in pending :
                 Finishes(m) /\ DOMAIN tasks' = DOMAIN tasks \cup {m.id}]_vars

\* C8 witness: one stored message got a response task, another stored
\* message got none, and the cooldown was entered once
C8_Witness ==
    /\ cooldowns = 1
    /\ \E i, j \in 1..Len(origin) :
          /\ origin[i].kind = "inbound" /\ origin[i].id \in DOMAIN tasks
          /\ origin[j].kind = "inbound" /\ origin[j].id \notin DOMAIN tasks

\* C9: the handler of a message that starts with the command prefix creates
\* no response task and leaves the message in the store.
C9_CommandStored ==
    [][\A m \in pending :
          Finishes(m) /\ StartsWith(m.content, command_prefix) =>
              /\ m.id \notin DOMAIN tasks'
              /\ \E i \in 1..Len(origin') :
                    origin'[i] = [kind |-> "inbound", id |-> m.id]]_vars

\* C10: the turn counter is the number of inbound messages appended since
\* the last reset, and the step that appends a reply leaves the counter, the
\* cooldown state and the timers unchanged.
C10_RepliesAreNotTurns ==
    /\ [](conversation_turns = since_reset)
    /\ [][AppendsReply =>
             /\ conversation_turns' = conversation_turns
             /\ in_cooldown' = in_cooldown
             /\ timers' = timers]_vars

\* C10 witness: a reply was stored between two turns, and only the second
\* turn entered the cooldown
C10_Witness ==
    /\ max_conversation_turns = 2
    /\ Len(origin) = 3
    /\ origin[2].kind = "reply"
    /\ cooldowns = 1

\* C11: persona loading always ends, with a character and a non-empty
\* system prompt; when the lookup returned nothing or an empty result, or
\* the lookup or the formatting raised, the character is the fixed default
\* named after the identity key.
C11_PersonaAlwaysUsable ==
    /\ load_pc \in {"constructed", "lookup", "loaded"}
    /\ load_pc = "loaded" =>
          /\ NonEmptyText(system_prompt)
          /\ character # CharacterNone
          /\ character # EmptyDict
          /\ (\/ load_trace.lookup \in {"absent", "empty", "raised"}
              \/ load_trace.format = "raised")
                => character = [name |-> notion_character_name,
                                personality |-> "Friendly and helpful",
                                speaking_style |-> "Casual and conversational",
                                language |-> "English",
                                model |-> "gpt-4"]

\* C11 witness: the lookup returned an empty result and the load has ended
C11_Witness ==
    /\ load_pc = "loaded"
    /\ load_trace = [lookup |-> "empty", format |-> "ok"]
    /\ base_role = ""

\* the sender's name holds one of the peer markers, letters compared without
\* regard to case
HasPeerMarker(sender_name) ==
    \E k \in 1..Len(bot_names) :
        \E i \in 1..Len(sender_name) :
            /\ i + Len(bot_names[k]) - 1 <= Len(sender_name)
            /\ \A j \in 1..Len(bot_names[k]) :
                  LowerChar(sender_name[i + j - 1]) = bot_names[k][j]

\* C12: called with a system prompt loaded, the method returns the prompt
\* followed by the fixed block exactly when the sender's name holds a peer
\* marker, the prompt itself otherwise, and leaves self.system_prompt as it
\* was.
C12_AdjustForSender ==
    /\ [](adjusted.base # PromptNone =>
             /\ HasPeerMarker(adjusted.sender) =>
                   adjusted.result = adjusted.base \o <<"bot_response_guidance">>
             /\ ~HasPeerMarker(adjusted.sender) =>
                   adjusted.result = adjusted.base)
    /\ [][adjusted' # adjusted => system_prompt' = system_prompt]_vars

\* C12 witness: Claude-Animal-42 got the block after the loaded prompt
C12_Witness ==
    /\ adjusted.sender = <<"C", "l", "a", "u", "d", "e", "-", "A", "n", "i",
                           "m", "a", "l", "-", "4", "2">>
    /\ adjusted.base # PromptNone
    /\ adjusted.result = system_prompt \o bot_response_guidance

\* C13: a cooldown-reset timer is outstanding exactly while the controller
\* is cooling down, and never more than one: each entry into the cooldown
\* has its one pending exit and no entry happens while a timer is pending.
C13_OneTimerWhileCoolingDown ==
    Cardinality(timers) = IF in_cooldown THEN 1 ELSE 0

\* C13 witness: the second cooldown of a run, entered after a message was
\* turned away during the first, has its one timer
C13_Witness ==
    /\ cooldowns = 2
    /\ dropped = 1
    /\ in_cooldown
    /\ Cardinality(timers) = 1

\* C14: the inbound utterances are in the store in the order their events
\* were observed: of two stored inbound messages, the one observed first is
\* stored first.
C14_AppendedInObservedOrder ==
    \A i, j \in 1..Len(origin) :
        (i < j /\ origin[i].kind = "inbound" /\ origin[j].kind = "inbound")
            => origin[i].id < origin[j].id

\* C15: whatever the response tasks in flight, every handler that has come
\* back from process_commands can run to its end.
C15_HandlerNeverBlockedByReply ==
    \A m \in pending :
        ENABLED (\E minutes \in CooldownMinutes : OnMessageResume(m, minutes))

\* C15 witness: a handler ran to its end and started a second response task
\* while the first one was still in flight
C15_Witness ==
    /\ Cardinality({id \in DOMAIN tasks : InFlight(id)}) = 2
    /\ pending = {}

\* C16: a handler that gets past the command check and the cooldown gate
\* with a message the eligibility hook rejects still appends the message and
\* still counts it: the counter goes up by one, or the message is the one
\* that reaches the threshold and the cooldown starts; no response task is
\* started for it.
C16_AppendNotGatedByHook ==
    [][\A m \in pending :
          (Finishes(m) /\ ~StartsWith(m.content, command_prefix)
             /\ ~in_cooldown /\ ~m.eligible)
          => /\ Appends("inbound", m.id)
             /\ tasks' = tasks
             /\ \/ conversation_turns' = conversation_turns + 1
                \/ /\ conversation_turns + 1 >= max_conversation_turns
                   /\ in_cooldown'
                   /\ cooldowns' = cooldowns + 1]_vars

\* C16 witness: with a threshold of two, two messages were stored, the hook
\* rejected the first, and the cooldown started all the same
C16_Witness ==
    /\ max_conversation_turns = 2
    /\ in_cooldown
    /\ cooldowns = 1
    /\ Len(history) = 2
    /\ tasks = << >>

C18_CounterBelowThreshold ==
    /\ [](max_conversation_turns >= 1 =>
            /\ 0 <= conversation_turns
            /\ conversation_turns < max_conversation_turns
            /\ in_cooldown => conversation_turns = 0
            /\ since_reset = conversation_turns
            /\ accepted = cooldowns * max_conversation_turns
                             + conversation_turns)
    /\ [][max_conversation_turns >= 1 =>
            /\ (in_cooldown /\ ~in_cooldown') => conversation_turns' = 0
            /\ (~in_cooldown /\ in_cooldown')
                  => since_reset + 1 = max_conversation_turns]_vars

\* C18 witness: with a threshold of two the cooldown was entered, ended, and
\* the counter has started again from zero
C18_Witness ==
    /\ max_conversation_turns = 2
    /\ cooldowns = 1
    /\ ~in_cooldown
    /\ accepted = 3
    /\ conversation_turns = 1
    /\ Len(history) > 3

\* the ids of the stored inbound messages, in the order they were stored
InboundIds ==
    LET inbound == SelectSeq(origin, LAMBDA e : e.kind = "inbound")
    IN  [i \in 1..Len(inbound) |-> inbound[i].id]

\* the k-th active period's messages: the accepted messages from the start
\* or from a cooldown entry up to and including the next cooldown entry
Period(k) ==
    {InboundIds[i] : i \in {j \in 1..Len(InboundIds) :
        /\ j > (k - 1) * max_conversation_turns
        /\ j <= k * max_conversation_turns}}

\* C19: with a threshold of at least one, the response tasks started for the
\* messages of one active period are at most max_turns - 1.
C19_TasksPerActivePeriod ==
    max_conversation_turns >= 1 =>
        \A k \in 1..(cooldowns + 1) :
            Cardinality(Period(k) \cap DOMAIN tasks)
                <= max_conversation_turns - 1

\* C19 witness: with a threshold of two, one response task was started in
\* each of two active periods, three messages having been accepted
C19_Witness ==
    /\ max_conversation_turns = 2
    /\ cooldowns = 1
    /\ Len(InboundIds) = 3
    /\ Cardinality(Period(1) \cap DOMAIN tasks) = 1
    /\ Cardinality(Period(2) \cap DOMAIN tasks) = 1

\* C20: the handler of a message written by the bot itself, or, when a
\* channel is configured, arriving on another channel, ends at once and
\* changes nothing: the store, the turn counter, the cooldown state, the
\* timers, the response tasks and the suspended handlers are as before.
C20_IgnoredMessageChangesNothing ==
    [][\A msg \in Messages :
          (/\ \/ msg.author = SelfUser
              \/ channel_id # 0 /\ msg.channel # channel_id
           /\ OnMessage(msg))
          => /\ ignored' = ignored + 1
             /\ UNCHANGED <<history, origin, conversation_turns, in_cooldown,
                            timers, tasks, pending, accepted, since_reset,
                            cooldowns, dropped, llm_calls, sent>>]_vars

\* C20 witness: with a channel configured, two of three messages were
\* ignored and the third is the only one stored
C20_Witness ==
    /\ channel_id # 0
    /\ observed = 3
    /\ ignored = 2
    /\ pending = {}
    /\ accepted = 1
    /\ Len(history) = 1
====
